---- MODULE Spec2Model ----
(***************************************************************************)
(* Model of the playlist downloader: the range parser, the upload-date     *)
(* formatter, the existing-file detector, the download loop of             *)
(* download_playlist and the interactive flow of main.                     *)
(*                                                                         *)
(* Strings are sequences of one-character strings, so that strip, split,   *)
(* isdigit, int and startswith are computed character by character.        *)
(***************************************************************************)
EXTENDS Integers, Sequences, FiniteSets, TLC

VARIABLES
    \* ---- parse_video_range called on its own
    range_str,          \* the argument range_str
    total,              \* the argument total
    parsed,             \* the outcome of the call (err = "not called" before it)
    \* ---- _format_upload_date called on its own
    raw,                \* the argument raw (None or a string)
    formatted,          \* NoStr before the call, then the returned string
    \* ---- _check_video_exists called on its own (against videos_dir)
    check_title,        \* the argument title
    check_listing,      \* what videos_dir.iterdir() does in this call
    check_result,       \* the outcome of the call (called = FALSE before it)
    \* ---- the playlist and the file system
    videos,             \* the playlist on the service: per item its real title and raw upload_date
    playlist_info,      \* PlaylistInfo.entries: per item the flat-listing title (None when absent)
    videos_dir,         \* the files of videos_dir, each [stem, ext]
    \* ---- one call of download_playlist
    selected_indices,   \* the argument selected_indices
    has_callback,       \* on_progress is not None
    pc,                 \* position of download_playlist
    seq,                \* enumerate(selected_indices, start=1): the current position
    metadata,           \* the list metadata
    failed,             \* the list failed
    completed,          \* the counter completed
    skipped,            \* the counter skipped
    hooks,              \* progress-hook calls made by the engine invocation in progress
    events,             \* history: the events delivered to on_progress in this call
    engine_calls,       \* history: the playlist_items value of every engine invocation of this call
    outcomes,           \* history: what happened to each processed position
    run,                \* history: which call of download_playlist this is
    first_run,          \* history: the outcomes of the previous call
    mkdir_failed,       \* history: videos_dir.mkdir raised in this call
    \* ---- main
    main_pc,            \* position of main
    warnings            \* history: the validation errors _prompt_range reported

vars == << range_str, total, parsed, raw, formatted, check_title, check_listing,
           check_result, videos, playlist_info, videos_dir,
           selected_indices, has_callback, pc, seq, metadata, failed, completed, skipped,
           hooks, events, engine_calls, outcomes, run, first_run, mkdir_failed, main_pc,
           warnings >>

parseVars == << range_str, total, parsed >>
dateVars == << raw, formatted >>
checkVars == << check_title, check_listing, check_result >>
worldVars == << videos, playlist_info, mkdir_failed >>
runVars == << videos_dir, selected_indices, has_callback, pc, seq, metadata, failed,
              completed, skipped, hooks, events, engine_calls, outcomes, run, first_run >>
mainVars == << main_pc, warnings >>

None == "None"

\* Optional[str]: NoStr is Python's None, Str(s) the string s.
NoStr == << >>
Str(s) == << s >>

\* ------------------------------------------------------------------ bounds

MaxLen == 4         \* longest range string enumerated for parse_video_range
MaxTotal == 3       \* largest playlist size enumerated for parse_video_range
MaxDateLen == 9     \* longest raw upload_date enumerated
MaxSel == 3         \* longest selected_indices passed to download_playlist
MaxHooks == 1       \* most progress-hook calls the engine makes per invocation
MaxWarnings == 2    \* most validation errors _prompt_range reports before the model stops asking
MaxDirSize == 3     \* most entries of videos_dir when _check_video_exists is called on its own

\* ------------------------------------------------------------ str methods

Digits == {"0", "1", "2", "3", "4", "5", "6", "7", "8", "9"}

\* The characters str.strip() removes, among the characters modelled.
Whitespace == {" "}

RECURSIVE LStrip(_, _)
LStrip(s, chars) ==
    IF s # << >> /\ Head(s) \in chars THEN LStrip(Tail(s), chars) ELSE s

RECURSIVE RStrip(_, _)
RStrip(s, chars) ==
    IF s # << >> /\ s[Len(s)] \in chars
    THEN RStrip(SubSeq(s, 1, Len(s) - 1), chars) ELSE s

\* str.strip(chars)
StripChars(s, chars) == RStrip(LStrip(s, chars), chars)

\* str.strip()
Strip(s) == StripChars(s, Whitespace)

\* Index of the first occurrence of character c in s, 0 when there is none.
Find(s, c) ==
    IF \E i \in 1..Len(s) : s[i] = c
    THEN CHOOSE i \in 1..Len(s) : s[i] = c /\ \A j \in 1..(i - 1) : s[j] # c
    ELSE 0

\* str.split(c): the pieces between the occurrences of c, empty pieces kept.
RECURSIVE Split(_, _)
Split(s, c) ==
    LET i == Find(s, c) IN
    IF i = 0 THEN << s >>
    ELSE << SubSeq(s, 1, i - 1) >> \o Split(SubSeq(s, i + 1, Len(s)), c)

\* str.split(c, maxsplit=1)
Split1(s, c) ==
    LET i == Find(s, c) IN
    IF i = 0 THEN << s >>
    ELSE << SubSeq(s, 1, i - 1), SubSeq(s, i + 1, Len(s)) >>

\* str.isdigit(): non-empty and made of digits only.
IsDigit(s) == s # << >> /\ \A i \in 1..Len(s) : s[i] \in Digits

DigitValue(c) ==
    CASE c = "0" -> 0 [] c = "1" -> 1 [] c = "2" -> 2 [] c = "3" -> 3 [] c = "4" -> 4
      [] c = "5" -> 5 [] c = "6" -> 6 [] c = "7" -> 7 [] c = "8" -> 8 [] c = "9" -> 9

\* int(s) of a digit string
RECURSIVE ToInt(_)
ToInt(s) ==
    IF s = << >> THEN 0
    ELSE 10 * ToInt(SubSeq(s, 1, Len(s) - 1)) + DigitValue(s[Len(s)])

\* str.startswith
StartsWith(s, p) == Len(p) <= Len(s) /\ SubSeq(s, 1, Len(p)) = p

Min(S) == CHOOSE x \in S : \A y \in S : x <= y

\* sorted(S) of a set of integers
RECURSIVE Sorted(_)
Sorted(S) ==
    IF S = {} THEN << >> ELSE << Min(S) >> \o Sorted(S \ {Min(S)})

\* list(range(n))
Range(n) == [i \in 1..n |-> i - 1]

\* ------------------------------------------------------ parse_video_range

Ok(v) == [ok |-> TRUE, val |-> v, err |-> None]
ValueError(kind) == [ok |-> FALSE, val |-> << >>, err |-> kind]

\* indices.update(range(lo - 1, hi))
RangeUpdateOffByOne(indices, lo, hi) == indices \cup ((lo - 1)..(hi - 2))
RangeUpdate(indices, lo, hi) == indices \cup ((lo - 1)..(hi - 1))

\* `lo < 1 or hi > total or lo > hi`
RangeOutOfBoundsNoInverted(lo, hi, tot) == lo < 1 \/ hi > tot
RangeOutOfBounds(lo, hi, tot) == lo < 1 \/ hi > tot \/ lo > hi

\* One pass of the loop body over the stripped segment `part`: the new set of
\* indices, or the ValueError raised.
ParsePart(part, tot, indices) ==
    IF \E i \in 1..Len(part) : part[i] = "-"
    THEN LET bounds == Split1(part, "-") IN
         IF Len(bounds) # 2 \/ ~IsDigit(Strip(bounds[1])) \/ ~IsDigit(Strip(bounds[2]))
         THEN ValueError("Invalid range segment")
         ELSE LET lo == ToInt(Strip(bounds[1]))
                  hi == ToInt(Strip(bounds[2]))
              IN  IF RangeOutOfBounds(lo, hi, tot)
                  THEN ValueError("Range out of bounds")
                  ELSE Ok(RangeUpdate(indices, lo, hi))
    ELSE IF ~IsDigit(part)
         THEN ValueError("Invalid number")
         ELSE LET num == ToInt(part) IN
              IF num < 1 \/ num > tot
              THEN ValueError("Video out of bounds")
              ELSE Ok(indices \cup {num - 1})

\* `if not part: continue`
NeverBlank(part) == FALSE
IsBlank(part) == part = << >>

\* The for loop over range_str.split(","), from segment k on.
RECURSIVE ParseLoop(_, _, _, _)
ParseLoop(parts, k, tot, indices) ==
    IF k > Len(parts) THEN Ok(indices)
    ELSE LET part == Strip(parts[k]) IN
         IF IsBlank(part) THEN ParseLoop(parts, k + 1, tot, indices)
         ELSE LET r == ParsePart(part, tot, indices) IN
              IF r.ok THEN ParseLoop(parts, k + 1, tot, r.val) ELSE r

\* The return value for an empty (stripped) range string.
AllVideosEmpty(tot) == << >>
AllVideos(tot) == Range(tot)

\* The final sorted(indices).
SortIndicesDescending(S) ==
    LET up == Sorted(S) IN [i \in 1..Len(up) |-> up[Len(up) + 1 - i]]
SortIndices(S) == Sorted(S)

parse_video_range(str, tot) ==
    LET s == Strip(str) IN
    IF s = << >> THEN Ok(AllVideos(tot))
    ELSE LET r == ParseLoop(Split(s, ","), 1, tot, {}) IN
         IF r.ok THEN Ok(SortIndices(r.val)) ELSE r

\* ---------------------------------------------------- _format_upload_date

\* raw[:4] - raw[4:6] - raw[6:8]
DateSlices(r) == SubSeq(r, 1, 4) \o << "-" >> \o SubSeq(r, 5, 6) \o << "-" >> \o SubSeq(r, 7, 8)

Unknown == << "U", "n", "k", "n", "o", "w", "n" >>

\* `not raw or len(raw) != 8`
DateRejected(r) == r = NoStr \/ r[1] = << >> \/ Len(r[1]) # 8

_format_upload_date(r) ==
    IF DateRejected(r) THEN Unknown ELSE DateSlices(r[1])

\* --------------------------------------------------------- sanitize_filename

\* The character class [\\/*?:"<>|] of the regular expression.
UnsafeChars == {"\\", "/", "*", "?", ":", "\"", "<", ">", "|"}

Untitled == << "U", "n", "t", "i", "t", "l", "e", "d" >>

sanitize_filename(name) ==
    LET replaced == [i \in 1..Len(name) |->
                        IF name[i] \in UnsafeChars THEN "_" ELSE name[i]]
        sanitized == StripChars(replaced, {".", " "})
    IN  IF sanitized = << >> THEN Untitled ELSE sanitized

\* ------------------------------------------------------- _check_video_exists

\* An entry of videos_dir: Path.stem and Path.suffix of its name, and whether
\* is_file() holds for it. No two entries of a directory have the same name.
File(stem, ext) == [stem |-> stem, ext |-> ext, is_file |-> TRUE]
Directory(stem, ext) == [stem |-> stem, ext |-> ext, is_file |-> FALSE]

common_extensions == << ".mp4", ".webm", ".mkv", ".avi", ".mov", ".m4v" >>

\* Optional[Path]
NoFile == << >>

\* What videos_dir.iterdir() can do: raise OSError, or yield the files in any order.
RECURSIVE Orders(_)
Orders(S) ==
    IF S = {} THEN { << >> }
    ELSE UNION { { << f >> \o o : o \in Orders(S \ {f}) } : f \in S }

Listings(dir) ==
    { [oserror |-> TRUE, files |-> << >>] } \cup
    { [oserror |-> FALSE, files |-> o] : o \in Orders(dir) }

\* potential_file.exists() for videos_dir / f"{sanitized_title}{ext}"
Exists(sanitized_title, ext, dir) ==
    \E f \in dir : f.stem = sanitized_title /\ f.ext = ext

\* The first loop: the first extension whose exact name exists.
ExactMatch(sanitized_title, dir) ==
    LET hits == { k \in 1..Len(common_extensions) :
                    Exists(sanitized_title, common_extensions[k], dir) }
    IN  IF hits = {} THEN NoFile
        ELSE << CHOOSE f \in dir : /\ f.stem = sanitized_title
                                   /\ f.ext = common_extensions[Min(hits)] >>

\* The second loop, over one listing: the first file whose stem starts with the title.
ScanMatch(sanitized_title, listing) ==
    LET hits == { k \in 1..Len(listing.files) :
                    /\ listing.files[k].is_file
                    /\ StartsWith(listing.files[k].stem, sanitized_title) }
    IN  IF listing.oserror \/ hits = {} THEN NoFile
        ELSE << listing.files[Min(hits)] >>

\* Whether the call reaches videos_dir.iterdir().
Scans(title, dir) ==
    title # << >> /\ ExactMatch(sanitize_filename(title), dir) = NoFile

_check_video_exists(title, dir, listing) ==
    IF title = << >> THEN NoFile
    ELSE LET sanitized_title == sanitize_filename(title)
             exact == ExactMatch(sanitized_title, dir)
         IN  IF exact # NoFile THEN exact ELSE ScanMatch(sanitized_title, listing)

\* ------------------------------------------------------------- the playlist

TitleA == << "a" >>
TitleAB == << "a", "b" >>
TitleABC == << "a", "b", "c" >>
Date20240315 == << "2", "0", "2", "4", "0", "3", "1", "5" >>

\* The playlists on the service: per item the title, the container the engine
\* ends up writing, and the raw upload_date of the full extraction.
Playlists ==
    { << [title |-> TitleA, ext |-> ".mp4", upload_date |-> Str(Date20240315)],
         [title |-> TitleAB, ext |-> ".webm", upload_date |-> NoStr] >> }

\* PlaylistInfo.entries for a playlist: per item the title of the flat listing,
\* or no usable title (the entry is None, or its title is None or empty).
FlatListings(vs) ==
    { e \in [1..Len(vs) -> {NoStr} \cup { Str(vs[i].title) : i \in 1..Len(vs) }] :
        \A i \in 1..Len(vs) : e[i] \in {NoStr, Str(vs[i].title)} }

\* What videos_dir holds before the first call.
InitialDirs == { {}, {File(TitleA, ".mp4")}, {File(TitleABC, ".txt")} }

\* str(k) for k >= 0
DigitChar(d) == CHOOSE c \in Digits : DigitValue(c) = d

RECURSIVE ToStr(_)
ToStr(k) == IF k < 10 THEN << DigitChar(k) >> ELSE ToStr(k \div 10) \o << DigitChar(k % 10) >>

\* f"Video #{idx + 1}"
VideoNumber(idx) == << "V", "i", "d", "e", "o", " ", "#" >> \o ToStr(idx + 1)

\* entry_title of the loop body, for the 0-based index idx
EntryTitle(idx) ==
    IF idx < Len(playlist_info) /\ playlist_info[idx + 1] # NoStr
       /\ playlist_info[idx + 1][1] # << >>
    THEN playlist_info[idx + 1][1]
    ELSE VideoNumber(idx)

\* All sequences over S of length at most n.
SeqsUpTo(S, n) == UNION { [1..k -> S] : k \in 0..n }

\* -------------------------------------------------------- download_playlist

\* A progress event as on_progress receives it. `raised` is history: whether
\* that call of on_progress raised.
Event(status, s, existing, r) ==
    [status |-> status, seq |-> s, skipped_existing |-> existing, raised |-> r]

\* `if on_progress: on_progress({...})`: the call is made in line, the event is
\* the latest one the callback has seen.
EmitOutOfOrder(evs, ev) == IF has_callback THEN << ev >> \o evs ELSE evs
Emit(evs, ev) == IF has_callback THEN Append(evs, ev) ELSE evs

\* Whether one call of on_progress raises: the callback is the caller's code.
Raises == IF has_callback THEN BOOLEAN ELSE {FALSE}

\* The locals the loop body updates.
Locals ==
    [metadata |-> metadata, failed |-> failed, completed |-> completed,
     skipped |-> skipped, events |-> events]

Commit(f) ==
    /\ metadata' = f.metadata
    /\ failed' = f.failed
    /\ completed' = f.completed
    /\ skipped' = f.skipped
    /\ events' = f.events

\* `failed.append(entry_title); skipped += 1`. The position is history.
RecordFailure(f, title) ==
    [f EXCEPT !.failed = Append(@, [title |-> title, seq |-> seq]), !.skipped = @ + 1]

\* `if on_progress: on_progress({"status": "error", ...})`
ReportError(f, r) ==
    [f EXCEPT !.events = Emit(@, Event("error", seq, FALSE, r))]

\* The body of `except Exception as exc:`
ExceptClause(f, title, r) == ReportError(RecordFailure(f, title), r)

\* The record appended for a file that is already there.
SkippedMeta(title) ==
    [title |-> title, description |-> "Video already downloaded - skipped",
     upload_date |-> Unknown, seq |-> seq]

\* The record appended for a downloaded entry. The position is history.
DownloadedMeta(entry) ==
    [title |-> entry.title, description |-> "downloaded",
     upload_date |-> _format_upload_date(entry.upload_date), seq |-> seq]

\* `metadata.append(video_meta)`
PrependRecord(md, video_meta) == << video_meta >> \o md
AppendRecord(md, video_meta) == Append(md, video_meta)

\* "outtmpl": videos_dir / "%(title)s.%(ext)s": the file the engine writes.
EngineFile(entry) == File(entry.title, entry.ext)

\* The loop goes on with the next index after a failure (`continue`, or the end of
\* the except clause).
BreakAfterFailure ==
    /\ pc' = "loop"
    /\ seq' = Len(selected_indices) + 1
ContinueAfterFailure ==
    /\ pc' = "loop"
    /\ seq' = seq + 1

\* The loop goes on with the next index after a video is done.
NextIteration ==
    /\ pc' = "loop"
    /\ seq' = seq + 1

\* An exception leaves download_playlist.
Propagate ==
    /\ pc' = "raised"
    /\ seq' = seq

\* videos_dir.mkdir(parents=True, exist_ok=True): the directory is there
\* afterwards, or the OSError leaves download_playlist.
mkdirIgnoringError(ok) == "loop"
mkdir(ok) == IF ok THEN "loop" ELSE "raised"

\* download_playlist is called: the directories are made (or mkdir raises) and the
\* locals are initialised.
Call ==
    /\ pc = "idle"
    /\ main_pc \in {"api", "download"}
    /\ \E mkdir_ok \in BOOLEAN :
         /\ pc' = mkdir(mkdir_ok)
         /\ mkdir_failed' = ~mkdir_ok
         /\ seq' = 1
         /\ metadata' = << >>
         /\ failed' = << >>
         /\ completed' = 0
         /\ skipped' = 0
    /\ UNCHANGED << parseVars, dateVars, checkVars, videos, playlist_info, mainVars, videos_dir,
                    selected_indices, has_callback, hooks, events, engine_calls, outcomes,
                    run, first_run >>

\* One pass of the loop body that finds the video's file.
SkipExisting ==
    /\ pc = "loop"
    /\ seq <= Len(selected_indices)
    /\ \E listing \in Listings(videos_dir), r \in Raises :
         LET idx == selected_indices[seq]
             entry_title == EntryTitle(idx)
             existing_file == _check_video_exists(entry_title, videos_dir, listing)
         IN  /\ existing_file # NoFile
             /\ skipped' = skipped + 1
             /\ completed' = completed + 1
             /\ metadata' = AppendRecord(metadata, SkippedMeta(entry_title))
             /\ events' = Emit(<< >>, Event("complete", seq, TRUE, r))
             /\ outcomes' = Append(outcomes, "existing")
             /\ IF r THEN Propagate ELSE NextIteration
    /\ UNCHANGED << parseVars, dateVars, checkVars, worldVars, mainVars, videos_dir, selected_indices,
                    has_callback, failed, hooks, engine_calls, run, first_run >>

\* "playlist_items" of single_opts: str(idx + 1) overrides the items_str of
\* download_opts, the 1-based items of the whole selection.
BatchedItems(idx) == [k \in 1..Len(selected_indices) |-> selected_indices[k] + 1]
single_opts(idx) == << idx + 1 >>

\* One pass of the loop body that finds no file: the `start` event, then the engine
\* is invoked for this one playlist item.
StartDownload ==
    /\ pc = "loop"
    /\ seq <= Len(selected_indices)
    /\ \E listing \in Listings(videos_dir), r \in Raises :
         LET idx == selected_indices[seq]
             existing_file == _check_video_exists(EntryTitle(idx), videos_dir, listing)
         IN  /\ existing_file = NoFile
             /\ events' = Emit(<< >>, Event("start", seq, FALSE, r))
             /\ IF r
                THEN /\ Propagate
                     /\ UNCHANGED << engine_calls, hooks >>
                ELSE /\ pc' = "engine"
                     /\ seq' = seq
                     /\ hooks' = 0
                     /\ engine_calls' =
                            Append(engine_calls, [seq |-> seq, playlist_items |-> single_opts(idx)])
    /\ UNCHANGED << parseVars, dateVars, checkVars, worldVars, mainVars, videos_dir, selected_indices,
                    has_callback, metadata, failed, completed, skipped, outcomes, run,
                    first_run >>

\* The engine calls the progress hook. Without a callback the hook returns at once;
\* a callback that raises makes the engine invocation raise.
_progress_hook ==
    /\ pc = "engine"
    /\ hooks < MaxHooks
    /\ hooks' = hooks + 1
    /\ \E status \in {"downloading", "finished"}, r \in Raises, r2 \in Raises :
         /\ r2 => r
         /\ LET title == EntryTitle(selected_indices[seq])
                f1 == [Locals EXCEPT !.events = Emit(@, Event(status, seq, FALSE, r))]
            IN  IF r
                THEN /\ Commit(ExceptClause(f1, title, r2))
                     /\ outcomes' = Append(outcomes, "failed")
                     /\ IF r2 THEN Propagate ELSE ContinueAfterFailure
                ELSE /\ Commit(f1)
                     /\ UNCHANGED << pc, seq, outcomes >>
    /\ UNCHANGED << parseVars, dateVars, checkVars, worldVars, mainVars, videos_dir, selected_indices,
                    has_callback, engine_calls, run, first_run >>

\* extract_info returns None.
EngineReturnsNone ==
    /\ pc = "engine"
    /\ \E r \in Raises, r2 \in Raises :
         /\ r2 => r
         /\ LET title == EntryTitle(selected_indices[seq])
                f1 == ReportError(RecordFailure(Locals, title), r)
            IN  /\ Commit(IF r THEN ExceptClause(f1, title, r2) ELSE f1)
                /\ IF r /\ r2 THEN Propagate ELSE ContinueAfterFailure
    /\ outcomes' = Append(outcomes, "failed")
    /\ UNCHANGED << parseVars, dateVars, checkVars, worldVars, mainVars, videos_dir, selected_indices,
                    has_callback, hooks, engine_calls, run, first_run >>

\* extract_info returns a result none of whose entries is usable.
EngineNoEntry ==
    /\ pc = "engine"
    /\ Commit(RecordFailure(Locals, EntryTitle(selected_indices[seq])))
    /\ ContinueAfterFailure
    /\ outcomes' = Append(outcomes, "failed")
    /\ UNCHANGED << parseVars, dateVars, checkVars, worldVars, mainVars, videos_dir, selected_indices,
                    has_callback, hooks, engine_calls, run, first_run >>

\* extract_info returns the downloaded entry; its file is in videos_dir.
EngineSuccess ==
    /\ pc = "engine"
    /\ \E r \in Raises, r2 \in Raises :
         /\ r2 => r
         /\ LET title == EntryTitle(selected_indices[seq])
                downloaded_entry == videos[selected_indices[seq] + 1]
                f1 == [Locals EXCEPT
                         !.metadata = AppendRecord(@, DownloadedMeta(downloaded_entry)),
                         !.completed = @ + 1,
                         !.events = Emit(@, Event("complete", seq, FALSE, r))]
            IN  /\ videos_dir' = videos_dir \cup {EngineFile(downloaded_entry)}
                /\ Commit(IF r THEN ExceptClause(f1, title, r2) ELSE f1)
                /\ IF r /\ r2 THEN Propagate ELSE NextIteration
    /\ outcomes' = Append(outcomes, "downloaded")
    /\ UNCHANGED << parseVars, dateVars, checkVars, worldVars, mainVars, selected_indices,
                    has_callback, hooks, engine_calls, run, first_run >>

\* extract_info (or the construction of the engine) raises.
EngineRaises ==
    /\ pc = "engine"
    /\ \E r \in Raises :
         /\ Commit(ExceptClause(Locals, EntryTitle(selected_indices[seq]), r))
         /\ IF r THEN Propagate ELSE ContinueAfterFailure
    /\ outcomes' = Append(outcomes, "failed")
    /\ UNCHANGED << parseVars, dateVars, checkVars, worldVars, mainVars, videos_dir, selected_indices,
                    has_callback, hooks, engine_calls, run, first_run >>

\* The selection is exhausted: the PlaylistResult is returned.
Return ==
    /\ pc = "loop"
    /\ seq > Len(selected_indices)
    /\ pc' = "returned"
    /\ UNCHANGED << parseVars, dateVars, checkVars, worldVars, mainVars, videos_dir, selected_indices,
                    has_callback, seq, metadata, failed, completed, skipped, hooks, events,
                    engine_calls, outcomes, run, first_run >>

\* The caller runs download_playlist again with the same arguments, against the
\* directory the first call left.
Rerun ==
    /\ pc = "returned"
    /\ run = 1
    /\ run' = 2
    /\ first_run' = outcomes
    /\ pc' = "idle"
    /\ seq' = 1
    /\ metadata' = << >>
    /\ failed' = << >>
    /\ completed' = 0
    /\ skipped' = 0
    /\ hooks' = 0
    /\ events' = << >>
    /\ engine_calls' = << >>
    /\ outcomes' = << >>
    /\ UNCHANGED << parseVars, dateVars, checkVars, worldVars, mainVars, videos_dir, selected_indices,
                    has_callback >>

\* ----------------------------------------------------------- specifications

NotCalled == [ok |-> FALSE, val |-> << >>, err |-> "not called"]

InitParseIdle ==
    /\ range_str = << >>
    /\ total = 0
    /\ parsed = NotCalled

InitDateIdle ==
    /\ raw = NoStr
    /\ formatted = NoStr

NotChecked == [called |-> FALSE, scanned |-> FALSE, path |-> NoFile]

InitCheckIdle ==
    /\ check_title = << >>
    /\ check_listing = [oserror |-> FALSE, files |-> << >>]
    /\ check_result = NotChecked

InitRunIdle ==
    /\ pc = "idle"
    /\ seq = 1
    /\ metadata = << >>
    /\ failed = << >>
    /\ completed = 0
    /\ skipped = 0
    /\ hooks = 0
    /\ events = << >>
    /\ engine_calls = << >>
    /\ outcomes = << >>
    /\ run = 1
    /\ first_run = << >>
    /\ mkdir_failed = FALSE

\* download_playlist called by any caller: any selection over the playlist's items,
\* in any order, with repetitions, with or without a callback.
Init ==
    /\ InitParseIdle
    /\ InitDateIdle
    /\ InitRunIdle
    /\ InitCheckIdle
    /\ videos \in Playlists
    /\ playlist_info \in FlatListings(videos)
    /\ videos_dir \in InitialDirs
    /\ selected_indices \in SeqsUpTo(0..(Len(videos) - 1), MaxSel)
    /\ has_callback \in BOOLEAN
    /\ main_pc = "api"
    /\ warnings = 0

Next ==
    \/ Call
    \/ SkipExisting
    \/ StartDownload
    \/ _progress_hook
    \/ EngineNoEntry
    \/ EngineSuccess
    \/ EngineReturnsNone
    \/ EngineRaises
    \/ Return

Spec == Init /\ [][Next]_vars

NextRerun == Next \/ Rerun

SpecRerun == Init /\ [][NextRerun]_vars

\* ------------------------------------------- parse_video_range, on its own

RangeAlphabet == {"0", "1", "2", " ", ",", "-", "a"}

\* The example of the specification: "1-3,7,10-12" with 12 videos.
ExampleRange == << "1", "-", "3", ",", "7", ",", "1", "0", "-", "1", "2" >>
InitWorldIdle ==
    /\ videos = << >>
    /\ playlist_info = << >>
    /\ videos_dir = {}
    /\ selected_indices = << >>
    /\ has_callback = FALSE
    /\ main_pc = "unit"
    /\ warnings = 0

InitParse ==
    /\ range_str \in SeqsUpTo(RangeAlphabet, MaxLen) \cup {ExampleRange}
    /\ total \in (0..MaxTotal) \cup {12}
    /\ parsed = NotCalled
    /\ InitDateIdle
    /\ InitRunIdle
    /\ InitCheckIdle
    /\ InitWorldIdle

\* parse_video_range(range_str, total) is called.
ParseCall ==
    /\ parsed = NotCalled
    /\ parsed' = parse_video_range(range_str, total)
    /\ UNCHANGED << range_str, total, dateVars, checkVars, worldVars, runVars, mainVars >>

SpecParse == InitParse /\ [][ParseCall]_vars

\* ----------------------------------------- _format_upload_date, on its own

DateAlphabet == {"1", "x", "-"}

InitDate ==
    /\ raw \in {NoStr} \cup { Str(s) : s \in SeqsUpTo(DateAlphabet, MaxDateLen) \cup {Date20240315} }
    /\ formatted = NoStr
    /\ InitParseIdle
    /\ InitRunIdle
    /\ InitCheckIdle
    /\ InitWorldIdle

\* _format_upload_date(raw) is called.
FormatCall ==
    /\ formatted = NoStr
    /\ formatted' = Str(_format_upload_date(raw))
    /\ UNCHANGED << raw, parseVars, checkVars, worldVars, runVars, mainVars >>

SpecDate == InitDate /\ [][FormatCall]_vars

\* ----------------------------------------- _check_video_exists, on its own

\* Titles: empty, plain, one the sanitizer strips, one it replaces.
CheckTitles == { << >>, TitleA, TitleAB, << "a", "." >>, << "?" >> }

\* What videos_dir can hold: files and sub-directories.
DirEntries ==
    { File(TitleA, ".mp4"), File(TitleA, ".webm"), File(TitleAB, ".mkv"),
      File(TitleABC, ".txt"), File(<< "_" >>, ".m4v"),
      Directory(TitleA, ".avi"), Directory(TitleAB, ".txt") }

InitCheck ==
    /\ check_title \in CheckTitles
    /\ videos_dir \in { d \in SUBSET DirEntries : Cardinality(d) <= MaxDirSize }
    /\ check_listing \in Listings(videos_dir)
    /\ check_result = NotChecked
    /\ InitParseIdle
    /\ InitDateIdle
    /\ InitRunIdle
    /\ videos = << >>
    /\ playlist_info = << >>
    /\ selected_indices = << >>
    /\ has_callback = FALSE
    /\ main_pc = "unit"
    /\ warnings = 0

\* _check_video_exists(title, videos_dir) is called.
CheckCall ==
    /\ ~check_result.called
    /\ check_result' = [called |-> TRUE,
                        scanned |-> Scans(check_title, videos_dir),
                        path |-> _check_video_exists(check_title, videos_dir, check_listing)]
    /\ UNCHANGED << check_title, check_listing, parseVars, dateVars, worldVars, runVars,
                    mainVars >>

SpecCheck == InitCheck /\ [][CheckCall]_vars

\* ----------------------------------------------------------------- main

\* What the user can type at the range prompt.
CliAlphabet == {"1", "2", " ", ",", "-", "a"}

\* extract_playlist_info(url): raises, or gives the PlaylistInfo; an empty playlist
\* ends main.
ExtractPlaylistInfo ==
    /\ main_pc = "extract"
    /\ \E extracted \in BOOLEAN :
         IF ~extracted THEN main_pc' = "exit" /\ total' = total
         ELSE /\ total' = Len(playlist_info)
              /\ main_pc' = IF Len(playlist_info) = 0 THEN "done" ELSE "prompt_range"
    /\ UNCHANGED << range_str, parsed, dateVars, checkVars, worldVars, runVars, warnings >>

\* `return indices` is reached only when parse_video_range did not raise.
AcceptsAnything(r) == TRUE
Accepts(r) == r.ok

\* One pass of the `while True` loop of _prompt_range: the input is read and
\* parsed; a ValueError is reported and the loop asks again.
_prompt_range ==
    /\ main_pc = "prompt_range"
    /\ \E typed \in SeqsUpTo(CliAlphabet, MaxLen) :
         LET r == parse_video_range(Strip(typed), total) IN
         /\ parsed' = r
         /\ IF Accepts(r)
            THEN /\ selected_indices' = r.val
                 /\ main_pc' = "confirm"
                 /\ warnings' = warnings
            ELSE /\ warnings < MaxWarnings
                 /\ warnings' = warnings + 1
                 /\ main_pc' = "prompt_range"
                 /\ selected_indices' = selected_indices
    /\ UNCHANGED << range_str, total, dateVars, checkVars, worldVars, videos_dir,
                    has_callback, pc, seq,
                    metadata, failed, completed, skipped, hooks, events, engine_calls,
                    outcomes, run, first_run >>

\* "Proceed? [Y/n]"
Confirm ==
    /\ main_pc = "confirm"
    /\ \E proceed \in BOOLEAN : main_pc' = IF proceed THEN "download" ELSE "done"
    /\ UNCHANGED << parseVars, dateVars, checkVars, worldVars, runVars, warnings >>

\* download_playlist is over: an exception ends main with exit status 1, a result
\* is summarised (and the PDF written when there is metadata).
Summary ==
    /\ main_pc = "download"
    /\ pc \in {"returned", "raised"}
    /\ \E pdf_ok \in BOOLEAN :
         main_pc' = IF pc = "raised" \/ (metadata # << >> /\ ~pdf_ok) THEN "exit" ELSE "done"
    /\ UNCHANGED << parseVars, dateVars, checkVars, worldVars, runVars, warnings >>

InitMain ==
    /\ InitParseIdle
    /\ InitDateIdle
    /\ InitRunIdle
    /\ InitCheckIdle
    /\ videos \in Playlists \cup { << >> }
    /\ playlist_info \in FlatListings(videos)
    /\ videos_dir \in InitialDirs
    /\ selected_indices = << >>
    /\ has_callback = TRUE
    /\ main_pc = "extract"
    /\ warnings = 0

NextMain ==
    \/ ExtractPlaylistInfo
    \/ _prompt_range
    \/ Confirm
    \/ Next
    \/ Summary

SpecMain == InitMain /\ [][NextMain]_vars

\* ===================================================================== claims

\* ---- the range grammar of the specification, segment by segment

\* The non-blank segments of a range string, stripped.
Segments(s) ==
    LET parts == Split(Strip(s), ",") IN
    { Strip(parts[k]) : k \in { j \in 1..Len(parts) : Strip(parts[j]) # << >> } }

\* seg is the hyphenated pair lo-hi, split at its k-th character.
IsPairAt(seg, k) ==
    /\ seg[k] = "-"
    /\ IsDigit(Strip(SubSeq(seg, 1, k - 1)))
    /\ IsDigit(Strip(SubSeq(seg, k + 1, Len(seg))))

PairLo(seg, k) == ToInt(Strip(SubSeq(seg, 1, k - 1)))
PairHi(seg, k) == ToInt(Strip(SubSeq(seg, k + 1, Len(seg))))

IsPair(seg) == \E k \in 1..Len(seg) : IsPairAt(seg, k)

\* The 1-based values a well-formed segment names.
NamedValues(seg) ==
    IF IsDigit(seg) THEN {ToInt(seg)}
    ELSE UNION { PairLo(seg, k)..PairHi(seg, k) : k \in { j \in 1..Len(seg) : IsPairAt(seg, j) } }

\* The three ways a segment is rejected.
NonNumericSegment(seg) == ~IsDigit(seg) /\ ~IsPair(seg)
SingleOutOfBounds(seg, tot) == IsDigit(seg) /\ ~(1 <= ToInt(seg) /\ ToInt(seg) <= tot)
PairOutOfBounds(seg, tot) ==
    \E k \in 1..Len(seg) :
        /\ IsPairAt(seg, k)
        /\ ~(1 <= PairLo(seg, k) /\ PairLo(seg, k) <= PairHi(seg, k) /\ PairHi(seg, k) <= tot)

Rejected(seg, tot) ==
    NonNumericSegment(seg) \/ SingleOutOfBounds(seg, tot) \/ PairOutOfBounds(seg, tot)

StrictlyAscending(s) == \A i \in 1..(Len(s) - 1) : s[i] < s[i + 1]

Elements(s) == { s[i] : i \in 1..Len(s) }

ParseDone == parsed # NotCalled

\* C5: for every valid non-empty range string, parse_video_range returns exactly
\* the values v-1 of the 1-based values v its segments name (a single value, or
\* every value of an inclusive lo-hi), strictly ascending, without duplicates, all
\* within [0, total); "1-3,7,10-12" with 12 videos gives [0,1,2,6,9,10,11].
C5_ParseReturnsNamedIndices ==
    /\ (ParseDone /\ Strip(range_str) # << >>
        /\ \A seg \in Segments(range_str) : ~Rejected(seg, total))
       => /\ parsed.ok
          /\ Elements(parsed.val) =
                { v - 1 : v \in UNION { NamedValues(seg) : seg \in Segments(range_str) } }
          /\ StrictlyAscending(parsed.val)
          /\ \A i \in 1..Len(parsed.val) : 0 <= parsed.val[i] /\ parsed.val[i] < total
    /\ (ParseDone /\ range_str = ExampleRange /\ total = 12)
       => parsed = Ok(<< 0, 1, 2, 6, 9, 10, 11 >>)

C5_Witness ==
    /\ ParseDone
    /\ range_str = << "2", ",", "0", "1" >>
    /\ total = 3
    /\ parsed = Ok(<< 0, 1 >>)

\* C6: parse_video_range raises, returning no selection, exactly when some
\* non-blank segment is a non-numeric token, a single value outside 1..total, or a
\* range lo-hi violating 1 <= lo <= hi <= total.
C6_ParseRaisesExactlyOnBadSegment ==
    ParseDone =>
        /\ ~parsed.ok <=>
              (Strip(range_str) # << >>
               /\ \E seg \in Segments(range_str) : Rejected(seg, total))
        /\ ~parsed.ok => parsed.val = << >>
        /\ parsed.err = "Video out of bounds"
              => \E seg \in Segments(range_str) : SingleOutOfBounds(seg, total)
        /\ parsed.err = "Range out of bounds"
              => \E seg \in Segments(range_str) : PairOutOfBounds(seg, total)
        /\ parsed.err \in {"Invalid number", "Invalid range segment"}
              => \E seg \in Segments(range_str) : NonNumericSegment(seg)

C6_Witness ==
    /\ ParseDone
    /\ range_str = << "1", ",", "2", "-" >>
    /\ total = 3
    /\ ~parsed.ok
    /\ parsed.err = "Invalid range segment"

\* C7: for an empty or whitespace-only range string and any total >= 0,
\* parse_video_range returns the full selection [0, 1, ..., total-1].
C7_BlankSelectsAll ==
    (ParseDone /\ \A i \in 1..Len(range_str) : range_str[i] \in Whitespace)
       => /\ parsed.ok
          /\ Len(parsed.val) = total
          /\ \A i \in 1..total : parsed.val[i] = i - 1

C7_Witness ==
    /\ ParseDone
    /\ range_str = << " ", " " >>
    /\ total = 3
    /\ parsed.val = << 0, 1, 2 >>

\* C8: the upload date is "YYYY-MM-DD" when the raw upload_date is an 8-character
\* numeric string YYYYMMDD, and "Unknown" for every other raw value (absent, of
\* another length, or containing a non-digit).
C8_UploadDateFormat ==
    formatted # NoStr =>
        IF raw # NoStr /\ Len(raw[1]) = 8 /\ IsDigit(raw[1])
        THEN formatted[1] = SubSeq(raw[1], 1, 4) \o << "-" >> \o SubSeq(raw[1], 5, 6)
                            \o << "-" >> \o SubSeq(raw[1], 7, 8)
        ELSE formatted[1] = Unknown

\* ---- download_playlist

Last(s) == s[Len(s)]

\* How many processed positions ended as `kind`: "existing" (the file was found),
\* "downloaded" (the engine returned the entry) or "failed" (the engine returned
\* None or nothing usable, or raised).
CountOf(kind) == Cardinality({ p \in 1..Len(outcomes) : outcomes[p] = kind })

ErrorEvents == { k \in 1..Len(events) : events[k].status = "error" }

\* The loop is between two passes (or over): `events` holds the calls of
\* on_progress made for position Len(outcomes).
BetweenPasses == pc \in {"loop", "returned"} /\ outcomes # << >>

\* C1: when download_playlist returns, len(metadata) is the number of selected
\* indices minus the number of failed videos, and skipped is the number of
\* pre-existing detections plus the number of failed videos.
C1_CountingLaw ==
    pc = "returned" =>
        /\ Len(metadata) = Len(selected_indices) - CountOf("failed")
        /\ skipped = CountOf("existing") + CountOf("failed")

C3_RerunSkipsDownloaded ==
    run = 2 =>
        /\ \A c \in Elements(engine_calls) : first_run[c.seq] # "downloaded"
        /\ \A p \in 1..Len(outcomes) :
              first_run[p] = "downloaded" => outcomes[p] = "existing"
        /\ (BetweenPasses /\ has_callback /\ first_run[Len(outcomes)] = "downloaded")
              => /\ Len(events) >= 1
                 /\ events[1].status = "complete"
                 /\ events[1].skipped_existing

\* C4: every per-video recoverable failure (the engine returns None, raises, or
\* returns no usable entry) appends the title to `failed` and emits exactly one
\* `error` event for that video.
C4_FailureRecordedAndReported ==
    (BetweenPasses /\ has_callback /\ Last(outcomes) = "failed")
       => /\ \E f \in Elements(failed) :
                f.seq = Len(outcomes) /\ f.title = EntryTitle(selected_indices[Len(outcomes)])
          /\ Cardinality(ErrorEvents) = 1

\* C9: at every point of a run len(metadata) + len(failed) <= len(selection), every
\* title in `failed` belongs to a selected index that produced neither a metadata
\* record nor a pre-existing-file skip, and no index contributes to both lists,
\* also when the callback raises while a `complete` event is delivered.
C9_MetadataAndFailedDisjoint ==
    /\ Len(metadata) + Len(failed) <= Len(selected_indices)
    /\ \A i \in 1..Len(failed), j \in 1..Len(metadata) : failed[i].seq # metadata[j].seq
    /\ \A i \in 1..Len(failed) :
          failed[i].seq <= Len(outcomes) => outcomes[failed[i].seq] = "failed"

\* ---- main

\* C10: a selection reaches download_playlist only after parse_video_range accepted
\* it. Every validation error of the range string is reported and the range asked
\* again, and nothing of the download (no call, no engine invocation, no progress
\* event) happens before a valid selection exists.
C10_DownloadOnlyAfterValidSelection ==
    [][ /\ main_pc' \in {"extract", "prompt_range", "confirm"}
              => pc' = "idle" /\ events' = << >> /\ engine_calls' = << >>
        /\ pc' # "idle"
              => /\ parsed'.ok
                 /\ selected_indices' = parsed'.val
                 /\ StrictlyAscending(selected_indices')
                 /\ \A i \in 1..Len(selected_indices') :
                        0 <= selected_indices'[i] /\ selected_indices'[i] < total'
        /\ (main_pc = "prompt_range" /\ ~parsed'.ok)
              => /\ warnings' = warnings + 1
                 /\ main_pc' = "prompt_range"
                 /\ selected_indices' = selected_indices
        /\ (main_pc = "prompt_range" /\ main_pc' = "confirm")
              => \E typed \in SeqsUpTo(CliAlphabet, MaxLen) :
                    /\ \A seg \in Segments(typed) : ~Rejected(seg, total)
                    /\ selected_indices' = parse_video_range(typed, total).val ]_vars

C10_Witness ==
    /\ main_pc = "download"
    /\ warnings = 2
    /\ parsed = Ok(<< 1 >>)
    /\ selected_indices = << 1 >>
    /\ pc = "engine"

\* C11: if creating the videos directory fails, download_playlist propagates the
\* error and the run does not start: no progress event is emitted, the engine is
\* never invoked, nothing is processed and no result is returned.
C11_MkdirFailurePropagates ==
    mkdir_failed =>
        /\ pc = "raised"
        /\ events = << >>
        /\ engine_calls = << >>
        /\ hooks = 0
        /\ outcomes = << >>
        /\ metadata = << >> /\ failed = << >>
        /\ completed = 0 /\ skipped = 0

C11_Witness ==
    /\ mkdir_failed
    /\ pc = "raised"
    /\ has_callback
    /\ Len(selected_indices) = 2

\* ---- the engine invocations

\* The title the existing-file check of the current position looks for.
CurrentTitle == sanitize_filename(EntryTitle(selected_indices[seq]))

\* An entry with the exact name title + one of the common extensions is there.
ExactThere == \E k \in 1..Len(common_extensions) :
                 Exists(CurrentTitle, common_extensions[k], videos_dir)

\* Some file of videos_dir has a stem that starts with the title.
PrefixThere == \E f \in videos_dir : f.is_file /\ StartsWith(f.stem, CurrentTitle)

\* The single-item request for the current position.
SingleItemCall == [seq |-> seq, playlist_items |-> << selected_indices[seq] + 1 >>]

\* The step of a found index: a `complete` event with skipped_existing, both
\* counters incremented, a metadata record, no engine invocation.
FoundStep ==
    /\ engine_calls' = engine_calls
    /\ pc' # "engine"
    /\ completed' = completed + 1
    /\ skipped' = skipped + 1
    /\ Len(metadata') = Len(metadata) + 1
    /\ failed' = failed
    /\ has_callback =>
          /\ Len(events') = 1
          /\ events'[1].status = "complete"
          /\ events'[1].skipped_existing
          /\ events'[1].seq = seq

\* The step of an index that was not found: the `start` event, then the engine is
\* invoked for this one item. With mayAbort, the callback raising on `start` may
\* end the run instead.
NotFoundStep(mayAbort) ==
    /\ completed' = completed /\ skipped' = skipped
    /\ metadata' = metadata /\ failed' = failed
    /\ has_callback =>
          /\ Len(events') = 1
          /\ events'[1].status = "start"
          /\ ~events'[1].skipped_existing
          /\ events'[1].seq = seq
    /\ IF mayAbort /\ has_callback /\ events'[1].raised
       THEN engine_calls' = engine_calls /\ pc' = "raised"
       ELSE engine_calls' = Append(engine_calls, SingleItemCall) /\ pc' = "engine"

\* The engine invocations so far are for distinct, ascending positions.
CallsAscending(calls) ==
    \A i, j \in 1..Len(calls) : i < j => calls[i].seq < calls[j].seq

EngineInvocations(mayAbort) ==
    /\ (pc = "loop" /\ seq <= Len(selected_indices)) =>
          /\ FoundStep \/ NotFoundStep(mayAbort)
          /\ ExactThere => FoundStep
          /\ ~PrefixThere /\ ~ExactThere => NotFoundStep(mayAbort)
    /\ ~(pc = "loop" /\ seq <= Len(selected_indices)) => engine_calls' = engine_calls
    /\ CallsAscending(engine_calls')
    /\ pc' = "returned" =>
          \A p \in 1..Len(selected_indices) :
             Cardinality({ c \in 1..Len(engine_calls') : engine_calls'[c].seq = p })
                = IF outcomes'[p] = "existing" THEN 0 ELSE 1

\* C12 as stated: in one run the engine is invoked exactly once for every selected
\* index whose existing-file check found nothing, each time with a single-item
\* request for that index alone (playlist item i+1), and never for an index whose
\* file was found; a found index gets a `complete` event with skipped_existing and
\* increments both the completed and the skipped counter.
C12_EngineOncePerMissingIndex == [][EngineInvocations(FALSE)]_vars

\* C12, amended: the same, except that an index whose check found nothing gets no
\* engine invocation when on_progress raises on its `start` event: that exception
\* leaves download_playlist before the engine is invoked.
C12_EngineOnceUnlessStartRaises == [][EngineInvocations(TRUE)]_vars

\* existing file skipped, then a missing one handed to the engine as item 2.
C12_Witness ==
    /\ pc = "engine"
    /\ outcomes = << "existing" >>
    /\ engine_calls = << [seq |-> 2, playlist_items |-> << 2 >>] >>
    /\ completed = 1 /\ skipped = 1

\* ---- the order of the events

\* The events of one index: its `start` first, then its `downloading` and
\* `finished` events, then its `complete` or `error` events; an index whose file
\* was found has its `complete` event alone.
EventsOrdered(evs) ==
    /\ \A k \in 1..Len(evs) : evs[k].seq = evs[1].seq
    /\ evs[1].status \in {"start", "complete"}
    /\ evs[1].status = "complete" => Len(evs) = 1 /\ evs[1].skipped_existing
    /\ \A i, j \in 1..Len(evs) : i < j =>
          /\ evs[j].status # "start"
          /\ ~evs[j].skipped_existing
          /\ evs[i].status \in {"complete", "error"}
                => evs[j].status \in {"complete", "error"}

IsProperPrefix(s, t) == Len(s) < Len(t) /\ SubSeq(t, 1, Len(s)) = s

\* C13: videos are processed strictly one at a time in selection order. Every
\* event is emitted for the position the loop is at, while exactly the earlier
\* positions have reached a terminal state (skipped-existing, complete or
\* failed), and for a downloaded index `start` precedes its `downloading` and
\* `finished` events, which precede its `complete` or `error` event.
C13_StrictlySequentialEvents ==
    [][ events' # events =>
          /\ events' # << >>
          /\ EventsOrdered(events')
          /\ events'[1].seq = seq
          /\ Len(outcomes) = seq - 1
          /\ seq' \in {seq, seq + 1}
          /\ IF pc = "loop"
             THEN Len(events') = 1
             ELSE pc = "engine" /\ IsProperPrefix(events, events')
          /\ (events # << >> /\ pc = "loop") => events[1].seq = seq - 1 ]_vars

\* start, a hook event and complete for the second position, after the first.
C13_Witness ==
    /\ Len(outcomes) = 2
    /\ Len(events) = 3
    /\ events[1].status = "start" /\ events[1].seq = 2
    /\ events[2].status \in {"downloading", "finished"}
    /\ events[3].status = "complete"

\* ---- the metadata list

Successful == { p \in 1..Len(outcomes) : outcomes[p] \in {"existing", "downloaded"} }

\* C15: the metadata list holds one record per successfully processed video
\* (downloaded or detected pre-existing), in processing order: the record of an
\* index processed earlier precedes the record of one processed later, which for
\* an ascending selection is ascending index order.
C15_MetadataInProcessingOrder ==
    /\ { metadata[j].seq : j \in 1..Len(metadata) } = Successful
    /\ Len(metadata) = Cardinality(Successful)
    /\ \A i, j \in 1..Len(metadata) : i < j => metadata[i].seq < metadata[j].seq
    /\ \A j \in 1..Len(metadata) :
          LET p == metadata[j].seq
              idx == selected_indices[p]
          IN  metadata[j].title = IF outcomes[p] = "existing" THEN EntryTitle(idx)
                                  ELSE videos[idx + 1].title
    /\ StrictlyAscending(selected_indices) =>
          \A i, j \in 1..Len(metadata) : i < j =>
             selected_indices[metadata[i].seq] < selected_indices[metadata[j].seq]

\* A pre-existing video, a failed one and a downloaded one: two records.
C15_Witness ==
    /\ pc = "returned"
    /\ outcomes = << "existing", "failed", "downloaded" >>
    /\ Len(metadata) = 2
    /\ metadata[1].seq = 1 /\ metadata[2].seq = 3

\* ---- _check_video_exists

\* What the detector is to return for title t against the entries dir, listed as
\* listing: nothing for an empty title; else the first exact title + extension
\* entry in the fixed extension order; else the first listed file whose stem
\* starts with the sanitized title; else nothing, as when the listing fails.
\* With filesOnly an exact entry counts only if it is a file.
Expected(t, dir, listing, filesOnly) ==
    LET st == sanitize_filename(t)
        named(k) == { f \in dir : /\ f.stem = st
                                  /\ f.ext = common_extensions[k]
                                  /\ (filesOnly => f.is_file) }
        exact == { k \in 1..Len(common_extensions) : named(k) # {} }
        cands == { k \in 1..Len(listing.files) :
                     /\ listing.files[k].is_file
                     /\ StartsWith(listing.files[k].stem, st) }
    IN  IF t = << >> THEN NoFile
        ELSE IF exact # {} THEN << CHOOSE f \in named(Min(exact)) : TRUE >>
        ELSE IF listing.oserror \/ cands = {} THEN NoFile
        ELSE << listing.files[Min(cands)] >>

\* C14: _check_video_exists returns no match for an empty title without scanning;
\* otherwise the first exact sanitized-title + extension file in the fixed
\* extension order if one exists, else the first immediate file of videos_dir
\* whose name without extension starts with the sanitized title, else no match; a
\* filesystem error during the fallback scan yields no match.
C14_CheckVideoExists ==
    check_result.called =>
        /\ check_result.path = Expected(check_title, videos_dir, check_listing, TRUE)
        /\ check_title = << >> => ~check_result.scanned
        /\ (check_result.scanned /\ check_listing.oserror) => check_result.path = NoFile

\* The same with the exact probe as the code makes it: exists() holds for a
\* directory of that name as well.
C14_ExactProbeMatchesAnyEntry ==
    check_result.called =>
        /\ check_result.path = Expected(check_title, videos_dir, check_listing, FALSE)
        /\ check_title = << >> => ~check_result.scanned
        /\ (check_result.scanned /\ check_listing.oserror) => check_result.path = NoFile

\* ---- blank segments of a range string

NotBlank(p) == Strip(p) # << >>

RECURSIVE JoinCommas(_)
JoinCommas(parts) ==
    IF Len(parts) = 0 THEN << >>
    ELSE IF Len(parts) = 1 THEN parts[1]
    ELSE parts[1] \o << "," >> \o JoinCommas(Tail(parts))

\* range_str without its blank segments.
WithoutBlankSegments(s) == JoinCommas(SelectSeq(Split(Strip(s), ","), NotBlank))

HasBlankSegment(s) ==
    LET parts == Split(Strip(s), ",") IN \E k \in 1..Len(parts) : ~NotBlank(parts[k])

OnlyCommasAndWhitespace(s) ==
    Len(s) > 0 /\ \A i \in 1..Len(s) : s[i] \in Whitespace \cup {","}

\* C16: blank segments between consecutive commas or at the ends of the string
\* are skipped without error. A string that differs from a valid string only by
\* added blank segments yields the selection of that valid string, and a non-empty
\* string made only of commas and whitespace yields a selection (the empty one
\* when it holds a comma) without raising.
C16_BlankSegmentsSkipped ==
    ParseDone =>
        /\ (/\ HasBlankSegment(range_str)
            /\ WithoutBlankSegments(range_str) # << >>
            /\ parse_video_range(WithoutBlankSegments(range_str), total).ok)
              => parsed = parse_video_range(WithoutBlankSegments(range_str), total)
        /\ OnlyCommasAndWhitespace(range_str) =>
              /\ parsed.ok
              /\ (\E i \in 1..Len(range_str) : range_str[i] = ",") => parsed.val = << >>

C16_Witness ==
    /\ ParseDone
    /\ range_str = << "2", ",", ",", "1" >>
    /\ total = 3
    /\ parsed = Ok(<< 0, 1 >>)

====
